---------------------------- MODULE Spec2Model ----------------------------
(***************************************************************************)
(* rancher-scriba: one collection pass of src/app/main.go.                 *)
(*                                                                         *)
(* main() fetches the clusters (getClusters, through withRetry), then for  *)
(* every entry of type "cluster" fetches its projects (getProjects,        *)
(* through withRetry), folds both into configMapData and hands that map to *)
(* updateConfigMap, which gets or creates the ConfigMap "rancher-data",    *)
(* renders the two sections "clusters" and "projects" and updates it.      *)
(*                                                                         *)
(* Text is a sequence of tokens.  A token is either one of the characters  *)
(* the code inspects ("," for strings.Split, " " for strings.TrimSpace,    *)
(* the double quote for strings.ReplaceAll), the marker "p-" that          *)
(* strings.Contains looks for, or a run of characters that holds none of   *)
(* these.  Two texts are the same string iff they are the same sequence.   *)
(***************************************************************************)
EXTENDS Integers, Sequences, FiniteSets, TLC

VARIABLES
    pc,             \* position of main(): "fetch", "sleep", "loop", "kube", "get", "create", "update", "exited"
    op,             \* the function whose closure withRetry is running: "getClusters" or "getProjects"
    i,              \* loop variable of withRetry
    results,        \* outcome of every call of fn in the current withRetry invocation
    sleeps,         \* seconds of every time.Sleep in the current withRetry invocation
    retErr,         \* what the current withRetry invocation returned: "running", "nil", "exhausted"
    clusters,       \* the slice returned by getClusters
    idx,            \* position of the range loop of main() in clusters (1-based)
    projReqs,       \* cluster identifiers for which getProjects was called
    configMapData,  \* the snapshot map of main()
    origin,         \* for every key of configMapData, the entity main() last inserted under it
    store,          \* the ConfigMap "rancher-data" as the API server holds it
    store0,         \* the ConfigMap as it was when the pass started
    cm,             \* the local *corev1.ConfigMap of updateConfigMap
    storeOps,       \* every Get/Create/Update the pass issued, with its outcome
    extWrites,      \* number of writes another client made to the ConfigMap
    exitCode        \* process exit status, -1 while running

vars == <<pc, op, i, results, sleeps, retErr, clusters, idx, projReqs,
          configMapData, origin, store, store0, cm, storeOps, extWrites, exitCode>>

retryVars == <<i, results, sleeps, retErr>>
storeVars == <<store, cm, storeOps>>

-----------------------------------------------------------------------------
(* Bounds of the model *)

\* writes by another client during one pass
MaxExtWrites == 1

-----------------------------------------------------------------------------
(* Text helpers: package strings and fmt *)

Quote == "\""
Backslash == "\\"
Space == " "
Comma == ","
ProjectMarker == "p-"

\* strings.Contains(s, tok) for a one-token substr
Contains(s, tok) == \E k \in 1..Len(s) : s[k] = tok

\* index of the first occurrence of tok in s (s contains tok)
IndexOf(s, tok) == CHOOSE k \in 1..Len(s) : s[k] = tok /\ \A j \in 1..(k-1) : s[j] # tok

RECURSIVE Split(_, _)
\* strings.Split(s, sep): the parts of s between the separators
Split(s, sep) ==
    IF Contains(s, sep)
    THEN LET k == IndexOf(s, sep)
         IN  <<SubSeq(s, 1, k-1)>> \o Split(SubSeq(s, k+1, Len(s)), sep)
    ELSE <<s>>

RECURSIVE TrimLeft(_)
TrimLeft(s) == IF s # <<>> /\ s[1] = Space THEN TrimLeft(Tail(s)) ELSE s

RECURSIVE TrimRight(_)
TrimRight(s) ==
    IF s # <<>> /\ s[Len(s)] = Space THEN TrimRight(SubSeq(s, 1, Len(s)-1)) ELSE s

\* strings.TrimSpace(s)
TrimSpace(s) == TrimRight(TrimLeft(s))

RECURSIVE ReplaceAll(_, _, _)
\* strings.ReplaceAll(s, old, new) for a one-token old
ReplaceAll(s, old, new) ==
    IF s = <<>> THEN <<>>
    ELSE (IF s[1] = old THEN new ELSE <<s[1]>>) \o ReplaceAll(Tail(s), old, new)

\* the orders in which a range loop may visit the keys of a Go map
Orders(S) ==
    {f \in [1..Cardinality(S) -> S] :
        \A a, b \in 1..Cardinality(S) : a # b => f[a] # f[b]}

\* a Go map with no entries, and m[k] = v
EmptyMap == [k \in {} |-> <<>>]
MapSet(m, k, v) == [x \in DOMAIN m \cup {k} |-> IF x = k THEN v ELSE m[x]]


-----------------------------------------------------------------------------
(* What the Rancher API may answer *)

devCluster   == [ID |-> <<"c-", "1">>, Name |-> <<"dev">>, Type |-> "cluster"]
edgeCluster  == [ID |-> <<"c-", "p-", "2">>, Name |-> <<"edge">>, Type |-> "cluster"]
nodeGroup    == [ID |-> <<"ng-", "1">>, Name |-> <<"pool">>, Type |-> "nodeGroup"]

webProject   == [ID |-> <<"p-", "1">>, Name |-> <<"web">>, ClusterID |-> <<"c-", "1">>,
                 Annotations |-> (<<"env">> :> <<"prod">>)]
dbProject    == [ID |-> <<"p-", "2">>, Name |-> <<"db">>, ClusterID |-> <<"c-", "1">>,
                 Annotations |-> (<<"a">> :> <<"1">>) @@ (<<"b">> :> <<"x", Quote, "y">>)]
bareProject  == [ID |-> <<"sys">>, Name |-> <<"a", Comma, "b">>, ClusterID |-> <<"c-", "1">>,
                 Annotations |-> EmptyMap]

\* the "data" arrays GET /clusters may decode to
ClusterLists ==
    { <<>>, <<devCluster>>, <<devCluster, nodeGroup>>, <<nodeGroup, devCluster>>,
      <<devCluster, edgeCluster>> }

\* the "data" arrays GET /projects?clusterId= may decode to
ProjectLists ==
    { <<>>, <<webProject>>, <<dbProject>>, <<bareProject>>, <<webProject, dbProject>> }

\* section bodies a ConfigMap may hold before the pass, and what another client writes
OldBody == <<"old">>
FooBody == <<"x">>
ExtBody == <<"y">>

\* the ConfigMap before the pass: absent, without data, or with sections
InitialStores ==
    { [exists |-> FALSE, Data |-> EmptyMap, rv |-> 0],
      [exists |-> TRUE,  Data |-> EmptyMap, rv |-> 1],
      [exists |-> TRUE,  Data |-> ("clusters" :> OldBody) @@ ("projects" :> OldBody), rv |-> 1],
      [exists |-> TRUE,  Data |-> ("clusters" :> OldBody) @@ ("projects" :> OldBody)
                                    @@ ("foo" :> FooBody), rv |-> 1] }

-----------------------------------------------------------------------------
(* BackoffRetrier: withRetry and exponentialBackoff *)

maxRetries == 5

\* a backoff that grows linearly instead of doubling
linearBackoff(retry) == 2 * retry

\* exponentialBackoff(retry), in seconds
exponentialBackoff(retry) == 2 ^ retry

\* a loop that stops one attempt early
LoopCondStrict(n) == n < maxRetries

\* the loop condition of withRetry
LoopCond(n) == n <= maxRetries

-----------------------------------------------------------------------------
(* SnapshotAggregator: the loop of main() *)

\* a filter that lets every entry of the clusters endpoint through
IsAnyType(c) == TRUE

\* the test cluster.Type == "cluster" of the loop of main()
IsCluster(c) == c.Type = "cluster"

\* what origin records for a cluster and for a project
ClusterEntry(c) == [kind |-> "cluster", Name |-> c.Name, Annotations |-> EmptyMap]
ProjectEntry(p) == [kind |-> "project", Name |-> p.Name, Annotations |-> p.Annotations]

RECURSIVE AddOrigins(_, _)
\* origin after the inner loop of main() inserted projs
AddOrigins(org, projs) ==
    IF projs = <<>> THEN org
    ELSE AddOrigins(MapSet(org, projs[1].ID, ProjectEntry(projs[1])), Tail(projs))

\* fmt.Sprintf("Cluster ID: %s, Name: %s", cluster.ID, cluster.Name)
ClusterData(c) == <<"Cluster ID:", Space>> \o c.ID \o <<Comma, Space, "Name:", Space>> \o c.Name

RECURSIVE AnnotationText(_, _)
\* the annotations appended to projectData, visited in the order ord
AnnotationText(ann, ord) ==
    IF ord = <<>> THEN <<>>
    ELSE <<Comma, Space, "Annotation:", Space>> \o ord[1] \o <<Space, "=", Space>> \o ann[ord[1]]
            \o AnnotationText(ann, Tail(ord))

\* projectData of one project, its annotations visited in the order ord
ProjectData(p, ord) ==
    <<"Project ID:", Space>> \o p.ID \o <<Comma, Space, "Name:", Space>> \o p.Name
        \o AnnotationText(p.Annotations, ord)

RECURSIVE AddProjects(_, _)
\* the snapshots the inner loop of main() may leave after inserting projs into data
AddProjects(data, projs) ==
    IF projs = <<>> THEN {data}
    ELSE UNION { AddProjects(MapSet(data, projs[1].ID, ProjectData(projs[1], ord)), Tail(projs)) :
                    ord \in Orders(DOMAIN projs[1].Annotations) }

-----------------------------------------------------------------------------
(* DocumentComposer: the rendering loop of updateConfigMap *)

RECURSIVE AnnotationLines(_, _)
\* one "  AnnotationN: ..." line per part, numbered from n
AnnotationLines(parts, n) ==
    IF parts = <<>> THEN <<>>
    ELSE <<"  Annotation", ToString(n), ": ", Quote>>
            \o ReplaceAll(TrimSpace(parts[1]), Quote, <<Backslash, Quote>>)
            \o <<Quote, "\n">>
            \o AnnotationLines(Tail(parts), n + 1)

\* the block written to projectsBuilder for one entry
ProjectBlock(id, name) ==
    LET parts == Split(name, Comma)
    IN  id \o <<":", "\n">>
           \o <<"  Project ID: ">> \o id \o <<"\n">>
           \o <<"  Name: ", Quote, "Project ID: ">> \o id \o <<Quote, "\n">>
           \o (IF Len(parts) > 1 THEN AnnotationLines(Tail(parts), 1) ELSE <<>>)

\* the block written to clustersBuilder for one entry
ClusterBlock(id, name) ==
    id \o <<":", "\n">>
       \o <<"  Cluster ID: ">> \o id \o <<"\n">>
       \o <<"  Name: '", "Cluster ID: ">> \o id \o <<Comma, Space, "Name: ", "Cluster ID: ">> \o id
       \o <<"'", "\n">>

\* a test that looks for the marker at the start of the identifier only
HasProjectPrefix(id) == id # <<>> /\ id[1] = ProjectMarker

\* the test that sends an entry to the projects section
IsProjectID(id) == Contains(id, ProjectMarker)

RECURSIVE RenderBoth(_, _)
\* a rendering that also writes every project block to clustersBuilder
RenderBoth(data, ord) ==
    IF ord = <<>> THEN << <<>>, <<>> >>
    ELSE LET id   == ord[Len(ord)]
             rest == RenderBoth(data, SubSeq(ord, 1, Len(ord) - 1))
         IN  IF IsProjectID(id)
             THEN <<rest[1] \o ProjectBlock(id, data[id]), rest[2] \o ProjectBlock(id, data[id])>>
             ELSE <<rest[1] \o ClusterBlock(id, data[id]), rest[2]>>

RECURSIVE Render(_, _)
\* <<clustersBuilder.String(), projectsBuilder.String()>> when the range loop visits data in the order ord
Render(data, ord) ==
    IF ord = <<>> THEN << <<>>, <<>> >>
    ELSE LET id   == ord[Len(ord)]
             rest == Render(data, SubSeq(ord, 1, Len(ord) - 1))
         IN  IF IsProjectID(id)
             THEN <<rest[1], rest[2] \o ProjectBlock(id, data[id])>>
             ELSE <<rest[1] \o ClusterBlock(id, data[id]), rest[2]>>

\* every pair of section bodies the rendering loop may produce for data
Renderings(data) == { Render(data, ord) : ord \in Orders(DOMAIN data) }

\* sections that are appended to what the document held, not overwritten
ComposeAppend(data, r) ==
    MapSet(MapSet(data, "clusters", (IF "clusters" \in DOMAIN data THEN data["clusters"] ELSE <<>>) \o r[1]),
           "projects", (IF "projects" \in DOMAIN data THEN data["projects"] ELSE <<>>) \o r[2])

\* a document rebuilt from the two owned sections only
ComposeOwnedOnly(data, r) == ("clusters" :> r[1]) @@ ("projects" :> r[2])

\* cm.Data after the two assignments cm.Data["clusters"], cm.Data["projects"]
ComposeData(data, r) == MapSet(MapSet(data, "clusters", r[1]), "projects", r[2])

-----------------------------------------------------------------------------
(* The pass *)

Init ==
    /\ pc = "fetch"
    /\ op = "getClusters"
    /\ i = 0
    /\ results = <<>>
    /\ sleeps = <<>>
    /\ retErr = "running"
    /\ clusters = <<>>
    /\ idx = 1
    /\ projReqs = {}
    /\ configMapData = EmptyMap
    /\ origin = EmptyMap
    /\ store \in InitialStores
    /\ store0 = store
    /\ cm = [Data |-> EmptyMap, isNil |-> TRUE, rv |-> 0]
    /\ storeOps = <<>>
    /\ extWrites = 0
    /\ exitCode = -1

\* a withRetry that sleeps before it looks at the error
ReturnNilAfterSleep ==
    /\ retErr' = "nil"
    /\ sleeps' = Append(sleeps, exponentialBackoff(i + 1))
    /\ UNCHANGED i

\* withRetry returns nil as soon as fn returns nil
ReturnNil ==
    /\ retErr' = "nil"
    /\ UNCHANGED <<i, sleeps>>

\* a fetch that returns nil instead of terminating when withRetry returned an error
FetchReturnsNil ==
    /\ pc' = "loop"
    /\ idx' = IF op = "getClusters" THEN 1 ELSE idx + 1
    /\ UNCHANGED <<op, exitCode>>

\* log.Fatalf in getClusters / getProjects when withRetry returned an error
FatalFetch ==
    /\ pc' = "exited"
    /\ exitCode' = 1
    /\ UNCHANGED <<op, idx>>

\* fn of getClusters returns nil: the response was decoded into clusters
FetchClustersOk ==
    /\ pc = "fetch" /\ op = "getClusters"
    /\ \E resp \in ClusterLists : clusters' = resp
    /\ results' = Append(results, "ok")
    /\ ReturnNil
    /\ pc' = "loop"
    /\ idx' = 1
    /\ UNCHANGED <<op, projReqs, configMapData, origin, storeVars, store0, extWrites, exitCode>>

\* fn of getProjects returns nil: the projects are folded into the snapshot
FetchProjectsOk ==
    /\ pc = "fetch" /\ op = "getProjects"
    /\ \E resp \in ProjectLists :
          /\ \E d \in AddProjects(configMapData, resp) : configMapData' = d
          /\ origin' = AddOrigins(origin, resp)
    /\ results' = Append(results, "ok")
    /\ ReturnNil
    /\ pc' = "loop"
    /\ idx' = idx + 1
    /\ UNCHANGED <<op, clusters, projReqs, storeVars, store0, extWrites, exitCode>>

\* fn returns an error (request, status code, body or decoding)
FetchFails ==
    /\ pc = "fetch"
    /\ results' = Append(results, "err")
    /\ pc' = "sleep"
    /\ UNCHANGED <<op, i, sleeps, retErr, clusters, idx, projReqs, configMapData, origin,
                   storeVars, store0, extWrites, exitCode>>

\* time.Sleep(exponentialBackoff(i + 1)), i++, and the loop test of withRetry
Sleep ==
    /\ pc = "sleep"
    /\ sleeps' = Append(sleeps, exponentialBackoff(i + 1))
    /\ i' = i + 1
    /\ IF LoopCond(i + 1)
       THEN /\ pc' = "fetch"
            /\ UNCHANGED <<retErr, op, idx, exitCode>>
       ELSE /\ retErr' = "exhausted"
            /\ FatalFetch
    /\ UNCHANGED <<results, clusters, projReqs, configMapData, origin, storeVars, store0, extWrites>>

\* the range loop of main() meets an entry whose Type is not "cluster"
LoopSkip ==
    /\ pc = "loop"
    /\ idx <= Len(clusters)
    /\ ~IsCluster(clusters[idx])
    /\ idx' = idx + 1
    /\ UNCHANGED <<pc, op, retryVars, clusters, projReqs, configMapData, origin,
                   storeVars, store0, extWrites, exitCode>>

\* the range loop meets a cluster: insert it and call getProjects
LoopCluster ==
    /\ pc = "loop"
    /\ idx <= Len(clusters)
    /\ IsCluster(clusters[idx])
    /\ configMapData' = MapSet(configMapData, clusters[idx].ID, ClusterData(clusters[idx]))
    /\ origin' = MapSet(origin, clusters[idx].ID, ClusterEntry(clusters[idx]))
    /\ projReqs' = projReqs \cup {clusters[idx].ID}
    /\ op' = "getProjects"
    /\ i' = 0
    /\ results' = <<>>
    /\ sleeps' = <<>>
    /\ retErr' = "running"
    /\ pc' = "fetch"
    /\ UNCHANGED <<clusters, idx, storeVars, store0, extWrites, exitCode>>

\* the range loop ends: main() calls updateConfigMap
LoopEnd ==
    /\ pc = "loop"
    /\ idx > Len(clusters)
    /\ pc' = "kube"
    /\ UNCHANGED <<op, retryVars, clusters, idx, projReqs, configMapData, origin,
                   storeVars, store0, extWrites, exitCode>>

\* getKubeClient succeeds
KubeClientOk ==
    /\ pc = "kube"
    /\ pc' = "get"
    /\ UNCHANGED <<op, retryVars, clusters, idx, projReqs, configMapData, origin,
                   storeVars, store0, extWrites, exitCode>>

\* getKubeClient fails: log.Fatalf
KubeClientFatal ==
    /\ pc = "kube"
    /\ pc' = "exited"
    /\ exitCode' = 1
    /\ UNCHANGED <<op, retryVars, clusters, idx, projReqs, configMapData, origin,
                   storeVars, store0, extWrites>>

-----------------------------------------------------------------------------
(* DocumentStore: updateConfigMap against the API server *)

\* one entry of storeOps
StoreOp(name, err, data) == [op |-> name, err |-> err, Data |-> data]

\* errors cmClient.Get may return: NotFound when the ConfigMap is absent, or any other failure
GetErrors == (IF store.exists THEN {} ELSE {"notfound"}) \cup {"other"}

\* errors cmClient.Create may return: AlreadyExists, or any other failure
CreateErrors == (IF store.exists THEN {"exists"} ELSE {}) \cup {"other"}

\* the API server accepts an update that carries no resourceVersion or the current one
UpdateAccepted == store.exists /\ (cm.rv = 0 \/ cm.rv = store.rv)

\* errors cmClient.Update may return: Conflict on a stale resourceVersion, or any other failure
UpdateErrors == (IF UpdateAccepted THEN {} ELSE {"conflict"}) \cup {"other"}

\* updateConfigMap returns to main(), which drops the result and returns
ReturnToMain ==
    /\ pc' = "exited"
    /\ exitCode' = 0

\* cmClient.Get returns the ConfigMap; a ConfigMap without data decodes to a nil Data map
GetFound ==
    /\ pc = "get"
    /\ store.exists
    /\ cm' = [Data |-> store.Data, isNil |-> (store.Data = EmptyMap), rv |-> store.rv]
    /\ storeOps' = Append(storeOps, StoreOp("get", "none", store.Data))
    /\ pc' = "update"
    /\ UNCHANGED <<op, retryVars, clusters, idx, projReqs, configMapData, origin,
                   store, store0, extWrites, exitCode>>

\* cmClient.Get returns an error: cm becomes a new ConfigMap with an empty Data map
GetFails ==
    /\ pc = "get"
    /\ \E e \in GetErrors : storeOps' = Append(storeOps, StoreOp("get", e, EmptyMap))
    /\ cm' = [Data |-> EmptyMap, isNil |-> FALSE, rv |-> 0]
    /\ pc' = "create"
    /\ UNCHANGED <<op, retryVars, clusters, idx, projReqs, configMapData, origin,
                   store, store0, extWrites, exitCode>>

\* cmClient.Create succeeds; its result is dropped, cm keeps no resourceVersion
CreateOk ==
    /\ pc = "create"
    /\ ~store.exists
    /\ store' = [exists |-> TRUE, Data |-> cm.Data, rv |-> store.rv + 1]
    /\ storeOps' = Append(storeOps, StoreOp("create", "none", cm.Data))
    /\ pc' = "update"
    /\ UNCHANGED <<op, retryVars, clusters, idx, projReqs, configMapData, origin,
                   cm, store0, extWrites, exitCode>>

\* cmClient.Create fails: updateConfigMap returns the error
CreateFails ==
    /\ pc = "create"
    /\ \E e \in CreateErrors : storeOps' = Append(storeOps, StoreOp("create", e, cm.Data))
    /\ ReturnToMain
    /\ UNCHANGED <<op, retryVars, clusters, idx, projReqs, configMapData, origin,
                   store, cm, store0, extWrites>>

\* cm.Data is nil: the assignment cm.Data["clusters"] = ... panics
UpdatePanic ==
    /\ pc = "update"
    /\ cm.isNil
    /\ pc' = "exited"
    /\ exitCode' = 2
    /\ UNCHANGED <<op, retryVars, clusters, idx, projReqs, configMapData, origin,
                   storeVars, store0, extWrites>>

\* the sections are rendered and assigned, cmClient.Update succeeds
UpdateOk ==
    /\ pc = "update"
    /\ ~cm.isNil
    /\ UpdateAccepted
    /\ \E r \in Renderings(configMapData) :
          LET d == ComposeData(cm.Data, r)
          IN  /\ cm' = [cm EXCEPT !.Data = d]
              /\ store' = [exists |-> TRUE, Data |-> d, rv |-> store.rv + 1]
              /\ storeOps' = Append(storeOps, StoreOp("update", "none", d))
    /\ ReturnToMain
    /\ UNCHANGED <<op, retryVars, clusters, idx, projReqs, configMapData, origin,
                   store0, extWrites>>

\* the sections are rendered and assigned, cmClient.Update fails
UpdateFails ==
    /\ pc = "update"
    /\ ~cm.isNil
    /\ \E r \in Renderings(configMapData) : \E e \in UpdateErrors :
          LET d == ComposeData(cm.Data, r)
          IN  /\ cm' = [cm EXCEPT !.Data = d]
              /\ storeOps' = Append(storeOps, StoreOp("update", e, d))
    /\ ReturnToMain
    /\ UNCHANGED <<op, retryVars, clusters, idx, projReqs, configMapData, origin,
                   store, store0, extWrites>>

\* another client sets the section "foo" of the ConfigMap while the pass runs
ExternalWrite ==
    /\ pc # "exited"
    /\ extWrites < MaxExtWrites
    /\ store.exists
    /\ store' = [store EXCEPT !.Data = MapSet(@, "foo", ExtBody), !.rv = @ + 1]
    /\ extWrites' = extWrites + 1
    /\ UNCHANGED <<pc, op, retryVars, clusters, idx, projReqs, configMapData, origin,
                   cm, storeOps, store0, exitCode>>

Next ==
    \/ FetchClustersOk
    \/ FetchProjectsOk
    \/ FetchFails
    \/ Sleep
    \/ LoopSkip
    \/ LoopCluster
    \/ LoopEnd
    \/ KubeClientOk
    \/ KubeClientFatal
    \/ GetFound
    \/ GetFails
    \/ CreateOk
    \/ CreateFails
    \/ UpdatePanic
    \/ UpdateOk
    \/ UpdateFails
    \/ ExternalWrite

Spec == Init /\ [][Next]_vars

-----------------------------------------------------------------------------
(* Properties *)

Owned == {"clusters", "projects"}

\* the body of section s of a document, empty when the section is missing
Section(data, s) == IF s \in DOMAIN data THEN data[s] ELSE <<>>

\* both owned sections of data hold a rendering of the snapshot
Refreshed(data) ==
    \E r \in Renderings(configMapData) :
        Section(data, "clusters") = r[1] /\ Section(data, "projects") = r[2]

\* the Create and Update calls the pass issued
Writes == {k \in 1..Len(storeOps) : storeOps[k].op \in {"create", "update"}}

\* C1: an operation that fails on every call is called exactly maxRetries+1 = 6
\* times by withRetry, never more and never fewer, and withRetry then returns
\* the retries-exhausted error.
C1_RetryBound ==
    /\ Len(results) <= 6
    /\ (retErr # "running" /\ \A k \in 1..Len(results) : results[k] = "err")
          => (Len(results) = 6 /\ maxRetries + 1 = 6 /\ retErr = "exhausted")

\* withRetry has given up after six failed calls
C1_Witness == retErr = "exhausted" /\ Len(results) = 6 /\ pc = "exited"

\* C2: when the operation fails on its first k-1 calls and succeeds on call k,
\* withRetry returns nil after exactly k calls with k-1 waits (none after the
\* successful call), and that invocation calls the operation no more.
C2_SuccessOnK ==
    /\ [](retErr = "nil" =>
             LET k == Len(results)
             IN  /\ k \in 1..(maxRetries + 1)
                 /\ results[k] = "ok"
                 /\ \A j \in 1..(k-1) : results[j] = "err"
                 /\ Len(sleeps) = k - 1)
    /\ [][(retErr = "nil" /\ retErr' = "nil") => (results' = results /\ sleeps' = sleeps)]_vars

\* withRetry returned nil on the third call, and on the last permitted call
C2_Witness == retErr = "nil" /\ Len(results) = 3 /\ Len(sleeps) = 2
C2_WitnessLast == retErr = "nil" /\ Len(results) = 6

\* C3 as stated: the wait that precedes attempt a (counted from 1) is 2^a
\* seconds, and the waits of one withRetry call are strictly increasing.
C3_WaitBeforeAttempt ==
    /\ \A a \in 2..Len(results) : sleeps[a - 1] = 2 ^ a
    /\ \A j, k \in 1..Len(sleeps) : j < k => sleeps[j] < sleeps[k]

\* C3 amended: the wait that follows failed attempt a (counted from 1) is 2^a
\* seconds, and the waits of one withRetry call are strictly increasing.
C3_WaitAfterAttempt ==
    /\ Len(sleeps) <= Len(results)
    /\ \A a \in 1..Len(sleeps) : results[a] = "err" /\ sleeps[a] = 2 ^ a
    /\ \A j, k \in 1..Len(sleeps) : j < k => sleeps[j] < sleeps[k]

\* three waits of 2, 4 and 8 seconds have been made
C3_Witness == Len(sleeps) = 3 /\ sleeps[3] = 8 /\ Len(results) = 4

\* C4: once withRetry has returned, the number of waits is the number of
\* attempts minus one; no wait follows the last attempt.
C4_WaitsBetweenAttempts ==
    retErr # "running" => Len(sleeps) = Len(results) - 1

\* C5: when updateConfigMap found the document, every section other than
\* "clusters" and "projects" has the same value in the document sent to Update
\* as in the document Get returned; none is added, removed or changed.
C5_OtherSectionsKept ==
    \A k \in 1..Len(storeOps) :
        (storeOps[k].op = "update" /\ storeOps[1].op = "get" /\ storeOps[1].err = "none") =>
            LET read    == storeOps[1].Data
                written == storeOps[k].Data
            IN  /\ DOMAIN written \ Owned = DOMAIN read \ Owned
                /\ \A s \in DOMAIN read \ Owned : written[s] = read[s]

\* a document holding "foo" was read and written back with a non-empty snapshot
C5_Witness ==
    /\ Len(storeOps) = 2
    /\ storeOps[1].op = "get" /\ storeOps[1].err = "none"
    /\ "foo" \in DOMAIN storeOps[1].Data
    /\ storeOps[2].op = "update" /\ storeOps[2].err = "none"
    /\ configMapData # EmptyMap
    /\ store.Data = storeOps[2].Data

\* C6: Create is issued only after Get reported "not found"; after any other
\* Get error no Create and no Update is issued and the process ends with a
\* failure status.
C6_CreateOnlyOnNotFound ==
    /\ \A k \in Writes : storeOps[k].op = "create" => storeOps[1].err = "notfound"
    /\ (storeOps # <<>> /\ storeOps[1].err = "other") =>
           (Writes = {} /\ (pc = "exited" => exitCode # 0))

\* C7: on a first run without another writer, whenever the document exists it
\* holds the rendering of the snapshot in "clusters" and "projects", and the
\* pass issues at most one write.
C7_CreatedWithFinalContent ==
    (~store0.exists /\ extWrites = 0) =>
        /\ store.exists => Refreshed(store.Data)
        /\ Cardinality(Writes) <= 1

\* C8: without another writer, after the pass the document is either fully
\* refreshed or exactly what it was before the pass (absent if it was absent).
C8_AllOrNothing ==
    (pc = "exited" /\ extWrites = 0) =>
        \/ (store.exists = store0.exists /\ store.Data = store0.Data)
        \/ (store.exists /\ Refreshed(store.Data))

\* C9: the process exits with status zero only when the last store call was a
\* successful Update.
C9_ExitZeroOnlyOnSuccess ==
    exitCode = 0 =>
        /\ storeOps # <<>>
        /\ storeOps[Len(storeOps)].op = "update"
        /\ storeOps[Len(storeOps)].err = "none"

\* C10: when the retries of getClusters or getProjects are exhausted the
\* process terminates with no Get, Create or Update ever issued, and the
\* document stays what it was.
C10_NoStoreCallAfterExhaustion ==
    /\ [](retErr = "exhausted" =>
             /\ pc = "exited" /\ exitCode = 1
             /\ storeOps = <<>>
             /\ (extWrites = 0 => store = store0))
    /\ [][retErr = "exhausted" => UNCHANGED <<pc, storeOps, store>>]_vars

\* getProjects gave up for the second cluster, after the first was aggregated
C10_Witness ==
    /\ retErr = "exhausted" /\ op = "getProjects" /\ idx = 2
    /\ Cardinality(DOMAIN configMapData) >= 2

-----------------------------------------------------------------------------
(* Reading a rendered section back *)

\* the lines of a section body
Lines(text) == Split(text, "\n")

\* the first token of every indented line of a block
BodyPrefixes == {"  Project ID: ", "  Cluster ID: ", "  Name: ", "  Name: '", "  Annotation"}

IsBodyLine(l) == l # <<>> /\ l[1] \in BodyPrefixes

\* position k of a section body is the start of a line
LineStart(text, k) == k = 1 \/ text[k-1] = "\n"

\* the positions where a header line "<id>:" starts in a section body
Headers(text, id) ==
    {k \in 1..(Len(text) - Len(id) - 1) :
        LineStart(text, k) /\ SubSeq(text, k, k + Len(id) + 1) = id \o <<":", "\n">>}

\* the number of blocks a section body holds for id, and in all
BlockCount(text, id) == Cardinality(Headers(text, id))
TotalBlocks(text) ==
    Cardinality({k \in 1..Len(text) :
                    LineStart(text, k) /\ text[k] # "\n" /\ text[k] \notin BodyPrefixes})

\* the indented lines of the first block of id in a section body
BlockOf(text, id) ==
    LET k  == CHOOSE h \in Headers(text, id) : \A g \in Headers(text, id) : h <= g
        ls == Lines(SubSeq(text, k + Len(id) + 2, Len(text)))
        e  == CHOOSE j \in 1..(Len(ls) + 1) :
                 /\ (j = Len(ls) + 1 \/ ~IsBodyLine(ls[j]))
                 /\ \A m \in 1..(j-1) : IsBodyLine(ls[m])
    IN  SubSeq(ls, 1, e - 1)

IsAnnotationLine(l) == l[1] = "  Annotation"
IsNameLine(l) == l[1] \in {"  Name: ", "  Name: '"}

\* a occurs in b as a run of consecutive tokens
IsSubSeq(a, b) == \E k \in 1..(Len(b) - Len(a) + 1) : SubSeq(b, k, k + Len(a) - 1) = a

\* every double quote of text is preceded by a backslash
QuotesEscaped(text) == \A k \in 1..Len(text) : text[k] = Quote => (k > 1 /\ text[k-1] = Backslash)

\* the pass has called Update; Written is the document it sent
Updated == storeOps # <<>> /\ storeOps[Len(storeOps)].op = "update"
Written == storeOps[Len(storeOps)].Data

\* the block of id in the document sent to Update, whichever section holds it
WrittenBlock(id) ==
    IF BlockCount(Written["projects"], id) > 0
    THEN BlockOf(Written["projects"], id)
    ELSE BlockOf(Written["clusters"], id)

\* C11: an entry of the clusters endpoint whose Type is not "cluster" is never
\* the subject of a getProjects call and is never inserted into the snapshot.
C11_NonClustersSkipped ==
    \A k \in 1..Len(clusters) :
        clusters[k].Type # "cluster" =>
            (clusters[k].ID \notin projReqs /\ clusters[k].ID \notin DOMAIN configMapData)

\* the loop has passed a nodeGroup entry and fetched the projects of the cluster after it
C11_Witness ==
    /\ pc = "kube"
    /\ clusters = <<nodeGroup, devCluster>>
    /\ projReqs = {devCluster.ID}
    /\ devCluster.ID \in DOMAIN configMapData

\* C12: every snapshot entry has a block in exactly one of the sections
\* "clusters" and "projects" of the composed document.
C12_ExactlyOneSection ==
    Updated =>
        \A id \in DOMAIN configMapData :
            BlockCount(Written["clusters"], id) + BlockCount(Written["projects"], id) = 1

\* a document with blocks in both sections has been composed
C12_Witness ==
    /\ Updated
    /\ TotalBlocks(Written["clusters"]) >= 1
    /\ TotalBlocks(Written["projects"]) >= 2

\* C13: the composed "clusters" and "projects" bodies are the same for every
\* composition of the same snapshot.
C13_SameBodiesEveryRun ==
    Updated =>
        \A r \in Renderings(configMapData) :
            Written["clusters"] = r[1] /\ Written["projects"] = r[2]

\* C14: a project with n annotations that is rendered in the "projects"
\* section has exactly n annotation lines, numbered 1..n, with every double
\* quote escaped.
C14_OneLinePerAnnotation ==
    Updated =>
        \A id \in DOMAIN origin :
            (origin[id].kind = "project" /\ BlockCount(Written["projects"], id) = 1) =>
                LET ann == SelectSeq(BlockOf(Written["projects"], id), IsAnnotationLine)
                IN  /\ Len(ann) = Cardinality(DOMAIN origin[id].Annotations)
                    /\ \A k \in 1..Len(ann) :
                          /\ ann[k][2] = ToString(k)
                          /\ QuotesEscaped(SubSeq(ann[k], 5, Len(ann[k]) - 1))

\* C15: clusters [cluster with one project {"env":"prod"}, nodeGroup] give a
\* snapshot of one cluster and one project, one block in "clusters" and one
\* block in "projects" with exactly one annotation line.
C15_EndToEnd ==
    ( /\ Updated
      /\ clusters \in {<<devCluster, nodeGroup>>, <<nodeGroup, devCluster>>}
      /\ origin = (devCluster.ID :> ClusterEntry(devCluster)) @@ (webProject.ID :> ProjectEntry(webProject)) )
    =>
        /\ DOMAIN configMapData = {devCluster.ID, webProject.ID}
        /\ TotalBlocks(Written["clusters"]) = 1
        /\ TotalBlocks(Written["projects"]) = 1
        /\ BlockCount(Written["projects"], webProject.ID) = 1
        /\ Len(SelectSeq(BlockOf(Written["projects"], webProject.ID), IsAnnotationLine)) = 1

\* C16: the name line of every rendered block holds the display name that was
\* fetched for its cluster or project.
C16_FetchedNameRendered ==
    Updated =>
        \A id \in DOMAIN origin :
            LET names == SelectSeq(WrittenBlock(id), IsNameLine)
            IN  /\ Len(names) = 1
                /\ IsSubSeq(origin[id].Name, names[1])

\* C17: after the pass has finished, a section another client wrote during
\* the pass still holds that client's value.
C17_ExternalSectionSurvives ==
    (pc = "exited" /\ extWrites > 0) =>
        ("foo" \in DOMAIN store.Data /\ store.Data["foo"] = ExtBody)

\* C18: after a successful pass over an existing document, "clusters" and
\* "projects" are a rendering of this pass's snapshot: every block belongs to
\* a snapshot entry and nothing of the previous bodies is left.
C18_FullOverwrite ==
    ( /\ exitCode = 0 /\ Updated /\ storeOps[Len(storeOps)].err = "none"
      /\ storeOps[1].op = "get" /\ storeOps[1].err = "none" )
    =>
        /\ \E r \in Renderings(configMapData) :
              store.Data["clusters"] = r[1] /\ store.Data["projects"] = r[2]
        /\ \A s \in Owned :
              /\ ~IsSubSeq(OldBody, store.Data[s])
              /\ TotalBlocks(store.Data[s]) =
                    Cardinality({id \in DOMAIN configMapData : BlockCount(store.Data[s], id) = 1})

\* a document that held old bodies was updated from a non-empty snapshot
C18_Witness ==
    /\ exitCode = 0 /\ Updated /\ storeOps[Len(storeOps)].err = "none"
    /\ storeOps[1].op = "get" /\ storeOps[1].err = "none"
    /\ "clusters" \in DOMAIN store0.Data /\ store0.Data["clusters"] = OldBody
    /\ Cardinality(DOMAIN configMapData) >= 2

\* C19 as stated: an entry inserted from a cluster is rendered in "clusters"
\* and an entry inserted from a project is rendered in "projects", whatever
\* its identifier.
C19_SectionFollowsKind ==
    Updated =>
        \A id \in DOMAIN origin :
            /\ origin[id].kind = "cluster" => BlockCount(Written["clusters"], id) = 1
            /\ origin[id].kind = "project" => BlockCount(Written["projects"], id) = 1

\* C19 amended: an entry is rendered in "projects" when its identifier
\* contains "p-" and in "clusters" otherwise, whatever kind it was inserted as.
C19_SectionFollowsIdentifier ==
    Updated =>
        \A id \in DOMAIN configMapData :
            IF \E k \in 1..Len(id) : id[k] = "p-"
            THEN BlockCount(Written["projects"], id) = 1 /\ BlockCount(Written["clusters"], id) = 0
            ELSE BlockCount(Written["clusters"], id) = 1 /\ BlockCount(Written["projects"], id) = 0

\* a cluster whose identifier contains "p-" and a project whose identifier does not were rendered
C19_Witness ==
    /\ Updated
    /\ edgeCluster.ID \in DOMAIN origin /\ origin[edgeCluster.ID].kind = "cluster"
    /\ bareProject.ID \in DOMAIN origin /\ origin[bareProject.ID].kind = "project"
    /\ BlockCount(Written["projects"], edgeCluster.ID) = 1
    /\ BlockCount(Written["clusters"], bareProject.ID) = 1

\* C20: when Get returned an existing document without data, the pass ends
\* normally after an Update whose document holds exactly "clusters" and
\* "projects".
C20_NilDataUpdated ==
    ( /\ pc = "exited"
      /\ storeOps # <<>> /\ storeOps[1].op = "get" /\ storeOps[1].err = "none"
      /\ storeOps[1].Data = EmptyMap )
    =>
        (exitCode = 0 /\ Updated /\ DOMAIN Written = Owned)

=============================================================================
